---- MODULE Spec2Model ----
(***************************************************************************)
(* Model of employee_tracking_app.py: a Streamlit script that is re-run    *)
(* from top to bottom on every widget interaction.  The widget state (the  *)
(* two file uploaders and the sidebar radio), the st.cache_data memo of    *)
(* load_file, the script's global data frames and what the last run put on *)
(* the page are the state.  Text is a sequence of one-character strings.   *)
(* Durations are kept exactly, in sixtieths of the unit time_to_minutes    *)
(* returns (one "tick" = 1/60), so H + M/60 is 60*H + M ticks.             *)
(***************************************************************************)
EXTENDS Integers, Sequences, FiniteSets, TLC

VARIABLES uploaded_employee_file, uploaded_video_file, choice, cache,
          employee_df, video_df, view

vars == <<uploaded_employee_file, uploaded_video_file, choice, cache,
          employee_df, video_df, view>>

-----------------------------------------------------------------------------
(* Bounds of the explored inputs *)
MaxRows == 2
MaxTopics == 7
MaxLen == 5

-----------------------------------------------------------------------------
(* Text helpers: str.strip, str.lower, str.replace, str.split, int *)

Whitespace == {" ", "\t", "\n"}

UpperCase == <<"A","B","C","D","E","F","G","H","I","J","K","L","M",
               "N","O","P","Q","R","S","T","U","V","W","X","Y","Z">>
LowerCase == <<"a","b","c","d","e","f","g","h","i","j","k","l","m",
               "n","o","p","q","r","s","t","u","v","w","x","y","z">>
Digits == <<"0","1","2","3","4","5","6","7","8","9">>

IndexOf(c, tbl) == IF \E i \in 1..Len(tbl) : tbl[i] = c
                   THEN CHOOSE i \in 1..Len(tbl) : tbl[i] = c
                   ELSE 0

RECURSIVE lstrip(_)
lstrip(s) == IF s # <<>> /\ Head(s) \in Whitespace THEN lstrip(Tail(s)) ELSE s

RECURSIVE rstrip(_)
rstrip(s) == IF s # <<>> /\ s[Len(s)] \in Whitespace
             THEN rstrip(SubSeq(s, 1, Len(s) - 1)) ELSE s

strip(s) == rstrip(lstrip(s))

lower(s) == [i \in 1..Len(s) |->
               IF IndexOf(s[i], UpperCase) # 0
               THEN LowerCase[IndexOf(s[i], UpperCase)] ELSE s[i]]

replace(s, old, new) == [i \in 1..Len(s) |-> IF s[i] = old THEN new ELSE s[i]]

(* t.split(sep): the parts between the occurrences of sep, empty parts kept *)
RECURSIVE split(_, _)
split(s, sep) ==
    IF \E i \in 1..Len(s) : s[i] = sep
    THEN LET i == CHOOSE j \in 1..Len(s) :
                     s[j] = sep /\ \A k \in 1..(j - 1) : s[k] # sep
         IN  <<SubSeq(s, 1, i - 1)>> \o split(SubSeq(s, i + 1, Len(s)), sep)
    ELSE <<s>>

(* the digits of an int literal, left to right; single underscores are     *)
(* allowed between digits only                                             *)
RECURSIVE int_digits(_, _, _)
int_digits(s, acc, after_digit) ==
    IF s = <<>> THEN [ok |-> after_digit, val |-> acc]
    ELSE IF IndexOf(Head(s), Digits) # 0
         THEN int_digits(Tail(s), 10 * acc + (IndexOf(Head(s), Digits) - 1), TRUE)
    ELSE IF Head(s) = "_" /\ after_digit
         THEN int_digits(Tail(s), acc, FALSE)
    ELSE [ok |-> FALSE, val |-> 0]

(* int(text): ok = FALSE stands for ValueError *)
int(text) ==
    LET s == strip(text) IN
    IF s = <<>> THEN [ok |-> FALSE, val |-> 0]
    ELSE IF Head(s) = "-"
         THEN LET r == int_digits(Tail(s), 0, FALSE)
              IN  [ok |-> r.ok, val |-> 0 - r.val]
    ELSE IF Head(s) = "+" THEN int_digits(Tail(s), 0, FALSE)
    ELSE int_digits(s, 0, FALSE)

-----------------------------------------------------------------------------
(* Cells of the video_duration column: a str, or a non-str value (None/NaN) *)
Str(s) == [isstr |-> TRUE, chars |-> s]
None == [isstr |-> FALSE, chars |-> <<>>]

TicksPerUnit == 60

(* time_to_minutes with the seconds of a three-part text added as whole    *)
(* units (the division by 60 forgotten)                                    *)
time_to_minutes_whole_seconds(t) ==
    IF t.isstr
    THEN LET parts == split(t.chars, ":") IN
         IF Len(parts) = 2
         THEN LET a == int(parts[1])
                  b == int(parts[2])
              IN  IF a.ok /\ b.ok THEN a.val * TicksPerUnit + b.val ELSE 0
         ELSE IF Len(parts) = 3
         THEN LET a == int(parts[1])
                  b == int(parts[2])
                  c == int(parts[3])
              IN  IF a.ok /\ b.ok /\ c.ok
                  THEN (a.val * 60 + b.val + c.val) * TicksPerUnit
                  ELSE 0
         ELSE 0
    ELSE 0

(* time_to_minutes with a two-part text read as hours and minutes *)
time_to_minutes_hours(t) ==
    IF t.isstr
    THEN LET parts == split(t.chars, ":") IN
         IF Len(parts) = 2
         THEN LET a == int(parts[1])
                  b == int(parts[2])
              IN  IF a.ok /\ b.ok THEN (a.val * 60 + b.val) * TicksPerUnit ELSE 0
         ELSE IF Len(parts) = 3
         THEN LET a == int(parts[1])
                  b == int(parts[2])
                  c == int(parts[3])
              IN  IF a.ok /\ b.ok /\ c.ok
                  THEN (a.val * 60 + b.val) * TicksPerUnit + c.val
                  ELSE 0
         ELSE 0
    ELSE 0

(* time_to_minutes(t), in ticks *)
time_to_minutes(t) ==
    IF t.isstr
    THEN LET parts == split(t.chars, ":") IN
         IF Len(parts) = 2
         THEN LET a == int(parts[1])
                  b == int(parts[2])
              IN  IF a.ok /\ b.ok THEN a.val * TicksPerUnit + b.val ELSE 0
         ELSE IF Len(parts) = 3
         THEN LET a == int(parts[1])
                  b == int(parts[2])
                  c == int(parts[3])
              IN  IF a.ok /\ b.ok /\ c.ok
                  THEN (a.val * 60 + b.val) * TicksPerUnit + c.val
                  ELSE 0
         ELSE 0
    ELSE 0
-----------------------------------------------------------------------------
(* Column names, as the script spells them *)
c_start_date == <<"s","t","a","r","t","_","d","a","t","e">>
c_end_date == <<"e","n","d","_","d","a","t","e">>
c_work_days == <<"w","o","r","k","_","d","a","y","s">>
c_leave_days == <<"l","e","a","v","e","_","d","a","y","s">>
c_topic == <<"t","o","p","i","c">>
c_name == <<"n","a","m","e">>
c_video_duration == <<"v","i","d","e","o","_","d","u","r","a","t","i","o","n">>
c_ppts_buffer == <<"p","p","t","'","s","_","b","u","f","f","e","r">>
c_lab_ppts_buffer == <<"l","a","b","_","p","p","t","'","s","_","b","u","f","f","e","r">>
c_illu_buffer == <<"i","l","l","u","_","b","u","f","f","e","r">>
c_ae_buffer == <<"a","e","_","b","u","f","f","e","r">>

(* line 26 / line 180: .str.strip().str.lower().str.replace(' ', '_') *)
normalize_column(c) == replace(lower(strip(c)), " ", "_")

normalize_columns(columns) == [i \in 1..Len(columns) |-> normalize_column(columns[i])]

Range(s) == {s[i] : i \in 1..Len(s)}

required == <<c_start_date, c_end_date, c_work_days, c_leave_days, c_topic, c_name>>

buffer_cols == <<c_ppts_buffer, c_lab_ppts_buffer, c_illu_buffer, c_ae_buffer>>

video_required == {c_name, c_video_duration}

-----------------------------------------------------------------------------
(* Dates.  A date cell is [month, day] of the leap year 2024, whose        *)
(* 1 January is a Monday; a cell that is no calendar date (30 February,    *)
(* month 13, an empty cell) is what pd.to_datetime(errors='coerce') turns  *)
(* into NaT.                                                               *)
NaT == [month |-> 0, day |-> 0]

DaysInMonth == <<31, 29, 31, 30, 31, 30, 31, 31, 30, 31, 30, 31>>

month_names == <<"January", "February", "March", "April", "May", "June", "July",
                 "August", "September", "October", "November", "December">>

IsCalendarDate(c) == /\ c.month \in 1..12
                     /\ c.day \in 1..DaysInMonth[c.month]

to_datetime(c) == IF IsCalendarDate(c) THEN c ELSE NaT

RECURSIVE DaysBefore(_)
DaysBefore(m) == IF m = 1 THEN 0 ELSE DaysBefore(m - 1) + DaysInMonth[m - 1]

day_of_year(d) == DaysBefore(d.month) + d.day

weekday(d) == ((day_of_year(d) - 1) % 7) + 1

(* .dt.isocalendar().week: the week with the year's first Thursday is week *)
(* 1; 30 and 31 December 2024 belong to week 1 of the next ISO year        *)
isocalendar_week(d) ==
    LET w == (day_of_year(d) - weekday(d) + 10) \div 7
    IN  IF w = 53 THEN 1 ELSE w

month_name(d) == month_names[d.month]

-----------------------------------------------------------------------------
(* Data frames: [columns |-> sequence of column names, rows |-> sequence   *)
(* of records].  A missing value is NaN.                                   *)
NaN == "NaN"

NoFile == [name |-> "", columns |-> <<>>, rows |-> <<>>]
NoFrame == [columns |-> <<>>, rows |-> <<>>]

(* lines 35-42: date conversion, dropna(subset=['start_date']), temporal   *)
(* features                                                                *)
convert_dates(rows) ==
    [i \in 1..Len(rows) |->
        [rows[i] EXCEPT !.start_date = to_datetime(@), !.end_date = to_datetime(@)]]

(* dropna without subset=: a row with any missing date is dropped *)
dropna_any_date(rows) == SelectSeq(rows, LAMBDA r : r.start_date # NaT /\ r.end_date # NaT)

dropna_start_date(rows) == SelectSeq(rows, LAMBDA r : r.start_date # NaT)

add_temporal_features(rows) ==
    [i \in 1..Len(rows) |->
        [name |-> rows[i].name, topic |-> rows[i].topic,
         start_date |-> rows[i].start_date, end_date |-> rows[i].end_date,
         work_days |-> rows[i].work_days, leave_days |-> rows[i].leave_days,
         ppts_buffer |-> rows[i].ppts_buffer,
         lab_ppts_buffer |-> rows[i].lab_ppts_buffer,
         illu_buffer |-> rows[i].illu_buffer, ae_buffer |-> rows[i].ae_buffer,
         week_number |-> isocalendar_week(rows[i].start_date),
         month |-> month_name(rows[i].start_date),
         month_number |-> rows[i].start_date.month]]

preprocess(df) ==
    [columns |-> df.columns,
     rows |-> add_temporal_features(dropna_start_date(convert_dates(df.rows)))]

-----------------------------------------------------------------------------
(* groupby(...).agg(...).reset_index(): pandas groups with sort=True, so   *)
(* the groups come out in ascending order of the key, strings compared as  *)
(* Python compares str.  Collation lists the strings used as keys in that  *)
(* order.                                                                  *)
Collation == <<"Alice", "April", "August", "Bob", "Carol", "December", "February",
               "January", "July", "June", "March", "May", "November", "October",
               "September">>

StrRank(x) == IndexOf(x, Collation)

RECURSIVE LexLess(_, _)
LexLess(a, b) ==
    IF a = <<>> \/ b = <<>> THEN a = <<>> /\ b # <<>>
    ELSE IF Head(a) # Head(b) THEN Head(a) < Head(b)
    ELSE LexLess(Tail(a), Tail(b))

(* the keys in descending order of rank *)
RECURSIVE sort_keys_descending(_)
sort_keys_descending(ks) ==
    IF ks = {} THEN <<>>
    ELSE LET m == CHOOSE k \in ks : \A o \in ks : o = k \/ LexLess(o.rank, k.rank)
         IN  <<m.key>> \o sort_keys_descending(ks \ {m})

(* the keys of ks, a set of [rank, key], in ascending order of rank *)
RECURSIVE sort_keys(_)
sort_keys(ks) ==
    IF ks = {} THEN <<>>
    ELSE LET m == CHOOSE k \in ks : \A o \in ks : o = k \/ LexLess(k.rank, o.rank)
         IN  <<m.key>> \o sort_keys(ks \ {m})

(* key[i] and rank[i] are the group key of row i and its sort rank *)
group_keys(key, rank) ==
    sort_keys({[rank |-> rank[i], key |-> key[i]] : i \in 1..Len(key)})

(* the rows of the group k, in their order *)
group_rows(rows, key, k) ==
    LET members == SelectSeq([i \in 1..Len(rows) |-> i], LAMBDA i : key[i] = k)
    IN  [j \in 1..Len(members) |-> rows[members[j]]]

RECURSIVE sum(_)
sum(s) == IF s = <<>> THEN 0 ELSE Head(s) + sum(Tail(s))

column(rows, c) == [i \in 1..Len(rows) |-> rows[i][c]]

(* 'count': the number of non-null values *)
count(s) == Len(SelectSeq(s, LAMBDA x : x # NaN))

(* 'nunique': the number of distinct non-null values *)
nunique(s) == Cardinality(Range(s) \ {NaN})

(* pd.Series.nunique on week_number, which has no missing value *)
Series_nunique(s) == Cardinality(Range(s))
-----------------------------------------------------------------------------
(* The six report branches *)
menu == <<"Weekly Performance", "Monthly Performance", "Overall Statistics",
          "Attendance", "PPT, Illustration & AE Buffer", "Video Duration">>

weekly_target == 6
target_minutes == 90

(* the comparison made strict *)
target_met_strict(aggregate, target) == aggregate > target

(* lines 60, 85, 199: aggregate >= target *)
target_met(aggregate, target) == aggregate >= target

(* line 56: ppt_count=('topic', 'count') *)
weekly_ppt_count(topics) == count(topics)

weekly_summary(rows) ==
    LET key == [i \in 1..Len(rows) |-> <<rows[i].name, rows[i].week_number>>]
        rank == [i \in 1..Len(rows) |-> <<StrRank(key[i][1]), key[i][2]>>]
        keys == group_keys(key, rank)
    IN  [i \in 1..Len(keys) |->
           LET g == group_rows(rows, key, keys[i])
               ppt_count == weekly_ppt_count(column(g, "topic"))
           IN  [name |-> keys[i][1], week_number |-> keys[i][2],
                total_work_days |-> sum(column(g, "work_days")),
                total_leave_days |-> sum(column(g, "leave_days")),
                ppt_count |-> ppt_count,
                weekly_target |-> weekly_target,
                target_met |-> target_met(ppt_count, weekly_target)]]

monthly_summary(rows) ==
    LET key == [i \in 1..Len(rows) |-> <<rows[i].name, rows[i].month, rows[i].month_number>>]
        rank == [i \in 1..Len(rows) |-> <<StrRank(key[i][1]), StrRank(key[i][2]), key[i][3]>>]
        keys == group_keys(key, rank)
    IN  [i \in 1..Len(keys) |->
           LET g == group_rows(rows, key, keys[i])
               ppt_count == nunique(column(g, "topic"))
               unique_weeks == Series_nunique(column(g, "week_number"))
           IN  [name |-> keys[i][1], month |-> keys[i][2], month_number |-> keys[i][3],
                total_work_days |-> sum(column(g, "work_days")),
                total_leave_days |-> sum(column(g, "leave_days")),
                ppt_count |-> ppt_count,
                unique_weeks |-> unique_weeks,
                monthly_target |-> unique_weeks * 6,
                target_met |-> target_met(ppt_count, unique_weeks * 6)]]

summary(rows) ==
    LET key == [i \in 1..Len(rows) |-> <<rows[i].name>>]
        rank == [i \in 1..Len(rows) |-> <<StrRank(key[i][1])>>]
        keys == group_keys(key, rank)
    IN  [i \in 1..Len(keys) |->
           LET g == group_rows(rows, key, keys[i])
           IN  [name |-> keys[i][1],
                total_work_days |-> sum(column(g, "work_days")),
                total_leave_days |-> sum(column(g, "leave_days")),
                total_ppt_count |-> nunique(column(g, "topic"))]]

attendance(rows) ==
    LET key == [i \in 1..Len(rows) |-> <<rows[i].name, rows[i].month>>]
        rank == [i \in 1..Len(rows) |-> <<StrRank(key[i][1]), StrRank(key[i][2])>>]
        keys == group_keys(key, rank)
    IN  [i \in 1..Len(keys) |->
           LET g == group_rows(rows, key, keys[i])
               total_days == Len(g)
               work_days == sum(column(g, "work_days"))
           IN  [name |-> keys[i][1], month |-> keys[i][2],
                total_days |-> total_days,
                work_days |-> work_days,
                leave_days |-> sum(column(g, "leave_days")),
                present_days |-> work_days,
                absent_days |-> total_days - work_days]]

(* any() in place of all() *)
buffer_available_any(columns) == \E i \in 1..Len(buffer_cols) : buffer_cols[i] \in Range(columns)

(* line 152: all four buffer columns are among the columns *)
buffer_available(columns) == \A i \in 1..Len(buffer_cols) : buffer_cols[i] \in Range(columns)

buffer_summary(rows) ==
    LET key == [i \in 1..Len(rows) |-> <<rows[i].name>>]
        rank == [i \in 1..Len(rows) |-> <<StrRank(key[i][1])>>]
        keys == group_keys(key, rank)
    IN  [i \in 1..Len(keys) |->
           LET g == group_rows(rows, key, keys[i])
           IN  [name |-> keys[i][1],
                ppts_buffer |-> sum(column(g, "ppts_buffer")),
                lab_ppts_buffer |-> sum(column(g, "lab_ppts_buffer")),
                illu_buffer |-> sum(column(g, "illu_buffer")),
                ae_buffer |-> sum(column(g, "ae_buffer"))]]

(* line 195: the total_minutes column (in ticks) *)
add_total_minutes(rows) ==
    [i \in 1..Len(rows) |->
        [name |-> rows[i].name, video_duration |-> rows[i].video_duration,
         total_minutes |-> time_to_minutes(rows[i].video_duration)]]

video_summary(rows) ==
    LET key == [i \in 1..Len(rows) |-> <<rows[i].name>>]
        rank == [i \in 1..Len(rows) |-> <<StrRank(key[i][1])>>]
        keys == group_keys(key, rank)
    IN  [i \in 1..Len(keys) |->
           LET g == group_rows(rows, key, keys[i])
               total_minutes == sum(column(g, "total_minutes"))
           IN  [name |-> keys[i][1],
                total_minutes |-> total_minutes,
                target_minutes |-> target_minutes,
                target_met |-> target_met(total_minutes, target_minutes * TicksPerUnit)]]
-----------------------------------------------------------------------------
(* load_file under @st.cache_data: the memo maps an uploaded file to the   *)
(* frame parsed from it and hands out a copy, so what the script does to   *)
(* its frame never reaches the memo                                        *)
CSV_SUFFIX == <<".","c","s","v">>

endswith(s, suffix) ==
    /\ Len(s) >= Len(suffix)
    /\ SubSeq(s, Len(s) - Len(suffix) + 1, Len(s)) = suffix

read_csv(file) == [columns |-> file.columns, rows |-> file.rows]
read_excel(file) == [columns |-> file.columns, rows |-> file.rows]

(* a memo that ignores its key: whatever was parsed first is handed out *)
load_file_stale(file, memo) ==
    IF DOMAIN memo # {}
    THEN [df |-> memo[CHOOSE f \in DOMAIN memo : TRUE], cache |-> memo]
    ELSE LET df == IF endswith(file.name, CSV_SUFFIX) THEN read_csv(file)
                   ELSE read_excel(file)
         IN  [df |-> df, cache |-> memo @@ (file :> df)]

load_file(file, memo) ==
    IF file \in DOMAIN memo
    THEN [df |-> memo[file], cache |-> memo]
    ELSE LET df == IF endswith(file.name, CSV_SUFFIX) THEN read_csv(file)
                   ELSE read_excel(file)
         IN  [df |-> df, cache |-> memo @@ (file :> df)]

(* lines 29-31 *)
missing_columns(columns) == Range(required) \ Range(columns)

(* any() in place of all() *)
schema_ok_any(columns) == \E i \in 1..Len(required) : required[i] \in Range(columns)

schema_ok(columns) == \A i \in 1..Len(required) : required[i] \in Range(columns)

(* what a run leaves on the page: the branch reached, the missing columns  *)
(* of st.error, the table of st.dataframe, and whether the run ended in an *)
(* uncaught exception after showing it                                     *)
Page(kind, missing, table, raised) ==
    [kind |-> kind, missing |-> missing, table |-> table, raised |-> raised]

(* lines 175-221 *)
video_branch(video_file, memo, df) ==
    IF video_file = NoFile
    THEN [cache |-> memo, employee_df |-> df, video_df |-> NoFrame,
          view |-> Page("video_info", {}, <<>>, FALSE)]
    ELSE LET l == load_file(video_file, memo)
             columns == normalize_columns(l.df.columns)
         IN  IF video_required \subseteq Range(columns)
             THEN LET rows == add_total_minutes(l.df.rows)
                      table == video_summary(rows)
                  IN  [cache |-> l.cache, employee_df |-> df,
                       video_df |-> [columns |-> columns, rows |-> rows],
                       view |-> Page("video", {}, table, table = <<>>)]
             ELSE [cache |-> l.cache, employee_df |-> df,
                   video_df |-> [columns |-> columns, rows |-> l.df.rows],
                   view |-> Page("video_error", {}, <<>>, FALSE)]

(* lines 49-221: the branch of the selected menu entry *)
report(ch, df, video_file, memo) ==
    LET show(kind, table, raised) ==
            [cache |-> memo, employee_df |-> df, video_df |-> NoFrame,
             view |-> Page(kind, {}, table, raised)]
    IN  IF ch = menu[1] THEN show("weekly", weekly_summary(df.rows), FALSE)
        ELSE IF ch = menu[2] THEN show("monthly", monthly_summary(df.rows), FALSE)
        ELSE IF ch = menu[3] THEN show("overall", summary(df.rows), FALSE)
        ELSE IF ch = menu[4]
             THEN show("attendance", attendance(df.rows), attendance(df.rows) = <<>>)
        ELSE IF ch = menu[5]
             THEN IF buffer_available(df.columns)
                  THEN show("buffer", buffer_summary(df.rows), FALSE)
                  ELSE show("buffer_warning", <<>>, FALSE)
        ELSE video_branch(video_file, memo, df)

(* one run of the script, lines 8-221.  A run that does not reach the      *)
(* sidebar radio (no employee file, or st.stop() at line 32) drops the     *)
(* radio's state, so the next run that shows it starts at the first entry. *)
script(employee_file, video_file, ch, memo) ==
    IF employee_file = NoFile
    THEN [choice |-> menu[1], cache |-> memo, employee_df |-> NoFrame,
          video_df |-> NoFrame, view |-> Page("none", {}, <<>>, FALSE)]
    ELSE LET l == load_file(employee_file, memo)
             columns == normalize_columns(l.df.columns)
         IN  IF ~schema_ok(columns)
             THEN [choice |-> menu[1], cache |-> l.cache,
                   employee_df |-> [columns |-> columns, rows |-> l.df.rows],
                   video_df |-> NoFrame,
                   view |-> Page("schema_error", missing_columns(columns), <<>>, FALSE)]
             ELSE LET df == preprocess([columns |-> columns, rows |-> l.df.rows])
                      r == report(ch, df, video_file, l.cache)
                  IN  [choice |-> ch, cache |-> r.cache, employee_df |-> r.employee_df,
                       video_df |-> r.video_df, view |-> r.view]

sidebar_shown == view.kind \notin {"none", "schema_error"}

-----------------------------------------------------------------------------
(* State machine: every widget interaction sets the widget's value and     *)
(* re-runs the script                                                      *)
rerun(employee_file, video_file, ch) ==
    \E r \in {script(employee_file, video_file, ch, cache)} :
        /\ uploaded_employee_file' = employee_file
        /\ uploaded_video_file' = video_file
        /\ choice' = r.choice
        /\ cache' = r.cache
        /\ employee_df' = r.employee_df
        /\ video_df' = r.video_df
        /\ view' = r.view

Init ==
    /\ uploaded_employee_file = NoFile
    /\ uploaded_video_file = NoFile
    /\ choice = menu[1]
    /\ cache = <<>>
    /\ employee_df = NoFrame
    /\ video_df = NoFrame
    /\ view = Page("none", {}, <<>>, FALSE)

UploadEmployee(f) == rerun(f, uploaded_video_file, choice)

UploadVideo(f) == rerun(uploaded_employee_file, f, choice)

SelectMode(c) ==
    /\ sidebar_shown
    /\ c # choice
    /\ rerun(uploaded_employee_file, uploaded_video_file, c)
-----------------------------------------------------------------------------
(* The explored uploads *)
Row(n, t, sd, ed, wd, ld, b) ==
    [name |-> n, topic |-> t, start_date |-> sd, end_date |-> ed,
     work_days |-> wd, leave_days |-> ld,
     ppts_buffer |-> b[1], lab_ppts_buffer |-> b[2],
     illu_buffer |-> b[3], ae_buffer |-> b[4]]

Date(m, d) == [month |-> m, day |-> d]

Buffers(p, l, i, a) == <<p, l, i, a>>

TopicNames == <<"T1", "T2", "T3", "T4", "T5", "T6", "T7", "T8", "T9", "T10">>

(* rows of two employees over weeks 3 and 4 and an impossible date, and    *)
(* two rows with a missing topic, a missing or impossible end date and a   *)
(* start date in ISO week 1 of the next year                               *)
RowPool ==
    {Row(n, t, sd, Date(3, 29), 5, 0, Buffers(1, 0, 2, 1)) :
        n \in {"Bob", "Alice"}, t \in {"T1", "T2"},
        sd \in {Date(1, 15), Date(1, 22), Date(2, 30)}}
    \cup {Row("Alice", NaN, Date(1, 15), NaT, 4, 1, Buffers(0, 1, 0, 3)),
          Row("Bob", "T1", Date(12, 30), Date(2, 30), 3, 2, Buffers(2, 2, 1, 0))}

RECURSIVE SeqsUpTo(_, _)
SeqsUpTo(S, n) ==
    IF n = 0 THEN {<<>>}
    ELSE LET shorter == SeqsUpTo(S, n - 1)
         IN  shorter \cup {Append(q, x) : q \in {r \in shorter : Len(r) = n - 1}, x \in S}

Tables == SeqsUpTo(RowPool, MaxRows)

(* one employee with k rows of k distinct topics in week 3, then dup       *)
(* repetitions of the first row                                            *)
week3_table(k, dup) ==
    [i \in 1..(k + dup) |->
        Row("Alice", TopicNames[IF i <= k THEN i ELSE 1], Date(1, 15), Date(1, 19),
            1, 0, Buffers(0, 0, 0, 0))]

ScenarioTables == {week3_table(k, dup) : k \in 1..MaxTopics, dup \in 0..1}

SmallTables ==
    {<<>>,
     <<Row("Bob", "T1", Date(1, 15), Date(1, 19), 5, 0, Buffers(1, 0, 2, 1)),
       Row("Alice", "T2", Date(2, 30), Date(1, 19), 4, 1, Buffers(0, 1, 0, 3)),
       Row("Alice", "T1", Date(3, 4), NaT, 3, 2, Buffers(2, 2, 1, 0))>>}

canonical_columns ==
    <<<<"s","t","a","r","t","_","d","a","t","e">>,
     <<"e","n","d","_","d","a","t","e">>,
     <<"w","o","r","k","_","d","a","y","s">>,
     <<"l","e","a","v","e","_","d","a","y","s">>,
     <<"t","o","p","i","c">>,
     <<"n","a","m","e">>>>

spelled_columns ==
    <<<<" ","S","t","a","r","t"," ","D","a","t","e">>,
     <<"E","n","d"," ","D","a","t","e"," ">>,
     <<"W","o","r","k"," ","D","a","y","s">>,
     <<"L","E","A","V","E"," ","D","A","Y","S">>,
     <<"T","o","p","i","c">>,
     <<"N","a","m","e">>>>

no_leave_days_columns ==
    <<<<"s","t","a","r","t","_","d","a","t","e">>,
     <<"e","n","d","_","d","a","t","e">>,
     <<"w","o","r","k","_","d","a","y","s">>,
     <<"t","o","p","i","c">>,
     <<"n","a","m","e">>>>

no_topic_leave_days_columns ==
    <<<<"S","t","a","r","t"," ","D","a","t","e">>,
     <<"E","n","d"," ","D","a","t","e">>,
     <<"W","o","r","k"," ","D","a","y","s">>,
     <<"N","a","m","e">>>>

double_space_columns ==
    <<<<"s","t","a","r","t"," "," ","d","a","t","e">>,
     <<"e","n","d","_","d","a","t","e">>,
     <<"w","o","r","k","_","d","a","y","s">>,
     <<"l","e","a","v","e","_","d","a","y","s">>,
     <<"t","o","p","i","c">>,
     <<"n","a","m","e">>>>

script_buffer_columns ==
    canonical_columns \o
    <<<<"P","P","T","'","s"," ","B","u","f","f","e","r">>,
     <<"L","a","b"," ","P","P","T","'","s"," ","B","u","f","f","e","r">>,
     <<"I","l","l","u"," ","B","u","f","f","e","r">>,
     <<"A","E"," ","B","u","f","f","e","r">>>>

plain_buffer_columns ==
    canonical_columns \o
    <<<<"p","p","t","_","b","u","f","f","e","r">>,
     <<"l","a","b","_","p","p","t","_","b","u","f","f","e","r">>,
     <<"i","l","l","u","_","b","u","f","f","e","r">>,
     <<"a","e","_","b","u","f","f","e","r">>>>

three_buffer_columns ==
    canonical_columns \o
    <<<<"p","p","t","'","s","_","b","u","f","f","e","r">>,
     <<"l","a","b","_","p","p","t","'","s","_","b","u","f","f","e","r">>,
     <<"i","l","l","u","_","b","u","f","f","e","r">>>>

employee_csv == <<"e", ".", "c", "s", "v">>
employee_xlsx == <<"e", ".", "x", "l", "s", "x">>
video_csv == <<"v", ".", "c", "s", "v">>

File(n, c, r) == [name |-> n, columns |-> c, rows |-> r]

OtherColumns == {spelled_columns, no_leave_days_columns, no_topic_leave_days_columns,
                 double_space_columns, script_buffer_columns, plain_buffer_columns,
                 three_buffer_columns}

EmployeeFiles ==
    {File(employee_csv, canonical_columns, t) : t \in Tables \cup ScenarioTables}
    \cup {File(employee_csv, c, t) : c \in OtherColumns, t \in SmallTables}
    \cup {File(employee_xlsx, spelled_columns, t) : t \in SmallTables}

video_columns ==
    <<<<"N","a","m","e"," ">>,
     <<"V","i","d","e","o"," ","D","u","r","a","t","i","o","n">>>>

no_duration_columns ==
    <<<<"n","a","m","e">>,
     <<"d","u","r","a","t","i","o","n">>>>

VideoRow(n, t) == [name |-> n, video_duration |-> t]

carol_rows == <<VideoRow("Carol", Str(<<"1", ":", "0", "0">>)),
               VideoRow("Carol", Str(<<"0", ":", "4", "5">>))>>

mixed_rows == <<VideoRow("Carol", Str(<<"9", "0", ":", "0">>)),
               VideoRow("Alice", Str(<<"1", ":", "2", "9", ":", "5", "9">>)),
               VideoRow("Alice", Str(<<"0", ":", "1">>)),
               VideoRow("Bob", Str(<<"-", "1", ":", "3", "0">>)),
               VideoRow("Bob", None)>>

VideoFiles ==
    {File(video_csv, video_columns, carol_rows),
     File(video_csv, video_columns, mixed_rows),
     File(video_csv, video_columns, <<>>),
     File(video_csv, no_duration_columns, carol_rows)}

(* every text of up to MaxLen characters over a small alphabet, and a      *)
(* non-text cell, as the single duration of a video table                  *)
Alphabet == {"0", "1", "5", "-", ":", "a", " "}

Durations == {Str(q) : q \in SeqsUpTo(Alphabet, MaxLen)} \cup {None}

DurationFiles == {File(video_csv, video_columns, <<VideoRow("Carol", t)>>) : t \in Durations}

scenario_file == File(employee_csv, canonical_columns, week3_table(2, 0))

SessionEmployeeFiles ==
    {NoFile,
     scenario_file,
     File(employee_csv, no_leave_days_columns, week3_table(1, 0)),
     File(employee_xlsx, script_buffer_columns, week3_table(1, 1))}

SessionVideoFiles ==
    {NoFile,
     File(video_csv, video_columns, carol_rows),
     File(video_csv, no_duration_columns, carol_rows)}

-----------------------------------------------------------------------------
(* Spec: one employee upload and one video upload per session, any         *)
(* sequence of menu selections                                             *)
FirstEmployeeUpload ==
    /\ uploaded_employee_file = NoFile
    /\ \E f \in EmployeeFiles : UploadEmployee(f)

FirstVideoUpload ==
    /\ uploaded_video_file = NoFile
    /\ \E f \in VideoFiles : UploadVideo(f)

Select == \E c \in Range(menu) : SelectMode(c)

Next == FirstEmployeeUpload \/ FirstVideoUpload \/ Select

Spec == Init /\ [][Next]_vars

(* SpecParse: the scenario employee table and a video table with one       *)
(* arbitrary duration cell                                                 *)
ScenarioUpload ==
    /\ uploaded_employee_file = NoFile
    /\ UploadEmployee(scenario_file)

DurationUpload ==
    /\ uploaded_video_file = NoFile
    /\ \E f \in DurationFiles : UploadVideo(f)

SelectVideo ==
    /\ choice # menu[6]
    /\ SelectMode(menu[6])

NextParse == ScenarioUpload \/ DurationUpload \/ SelectVideo

SpecParse == Init /\ [][NextParse]_vars

(* SpecSession: files are replaced and removed during the session *)
ReplaceEmployee ==
    \E f \in SessionEmployeeFiles : f # uploaded_employee_file /\ UploadEmployee(f)

ReplaceVideo ==
    \E f \in SessionVideoFiles : f # uploaded_video_file /\ UploadVideo(f)

NextSession == ReplaceEmployee \/ ReplaceVideo \/ Select

SpecSession == Init /\ [][NextSession]_vars
-----------------------------------------------------------------------------
(* Vocabulary of the properties, stated on the uploads and the page        *)
SchemaValid == uploaded_employee_file # NoFile /\ sidebar_shown

Indices(q) == 1..Len(q)

RECURSIVE SumOver(_, _)
SumOver(S, f) ==
    IF S = {} THEN 0
    ELSE LET x == CHOOSE y \in S : TRUE IN f[x] + SumOver(S \ {x}, f)

(* the rows of the normalized employee table in the group of a summary row *)
WeekGroup(row) ==
    {i \in Indices(employee_df.rows) :
        /\ employee_df.rows[i].name = row.name
        /\ employee_df.rows[i].week_number = row.week_number}

MonthGroup(row) ==
    {i \in Indices(employee_df.rows) :
        /\ employee_df.rows[i].name = row.name
        /\ employee_df.rows[i].month = row.month
        /\ employee_df.rows[i].month_number = row.month_number}

DistinctTopics(group) == {employee_df.rows[i].topic : i \in group} \ {NaN}

(* C1: in the Weekly report, ppt_count of every (name, week_number) row is *)
(* the number of distinct topics among the rows of that group              *)
Claim_C1 ==
    view.kind = "weekly" =>
        \A i \in Indices(view.table) :
            view.table[i].ppt_count = Cardinality(DistinctTopics(WeekGroup(view.table[i])))

(* C2: target_met holds exactly when the aggregate reaches the target: 6   *)
(* for Weekly, 6 times the number of distinct weeks of the group for       *)
(* Monthly, 90 minutes for Video                                           *)
Thm_C2 ==
    /\ view.kind = "weekly" =>
         \A i \in Indices(view.table) :
            LET row == view.table[i] IN
            /\ row.weekly_target = 6
            /\ row.target_met <=> row.ppt_count >= 6
    /\ view.kind = "monthly" =>
         \A i \in Indices(view.table) :
            LET row == view.table[i]
                weeks == {employee_df.rows[j].week_number : j \in MonthGroup(row)}
            IN  /\ row.unique_weeks = Cardinality(weeks)
                /\ row.monthly_target = 6 * Cardinality(weeks)
                /\ row.target_met <=> row.ppt_count >= row.monthly_target
    /\ view.kind = "video" =>
         \A i \in Indices(view.table) :
            LET row == view.table[i] IN
            /\ row.target_minutes = 90
            /\ row.target_met <=> row.total_minutes >= 90 * 60

(* a Weekly row that meets the target exactly *)
Wit_C2 ==
    /\ view.kind = "weekly"
    /\ \E i \in Indices(view.table) :
          view.table[i].ppt_count = 6 /\ view.table[i].target_met

-----------------------------------------------------------------------------
(* What the text of a duration denotes, read off its characters            *)
DigitChars == {"0", "1", "2", "3", "4", "5", "6", "7", "8", "9"}

DigitValue(c) == CHOOSE v \in 0..9 : Digits[v + 1] = c

Blank(c) == c \in {" ", "\t", "\n"}

(* the text between its first and its last non-blank character *)
Trimmed(p) ==
    LET solid == {i \in Indices(p) : ~Blank(p[i])}
    IN  IF solid = {} THEN <<>>
        ELSE SubSeq(p, CHOOSE i \in solid : \A j \in solid : i <= j,
                       CHOOSE i \in solid : \A j \in solid : j <= i)

Unsigned(p) ==
    LET q == Trimmed(p)
    IN  IF q # <<>> /\ q[1] \in {"+", "-"} THEN Tail(q) ELSE q

(* an optional sign, then digits, single underscores between digits only *)
IsIntegerText(p) ==
    LET b == Unsigned(p) IN
    /\ b # <<>>
    /\ \A i \in Indices(b) :
          \/ b[i] \in DigitChars
          \/ /\ b[i] = "_"
             /\ 1 < i /\ i < Len(b)
             /\ b[i - 1] \in DigitChars /\ b[i + 1] \in DigitChars

RECURSIVE Pow10(_)
Pow10(n) == IF n = 0 THEN 1 ELSE 10 * Pow10(n - 1)

IntegerValue(p) ==
    LET b == Unsigned(p)
        places == {i \in Indices(b) : b[i] \in DigitChars}
        weight == [i \in places |->
                     DigitValue(b[i]) * Pow10(Cardinality({j \in places : j > i}))]
        magnitude == SumOver(places, weight)
    IN  IF Trimmed(p)[1] = "-" THEN 0 - magnitude ELSE magnitude

Colons(s) == {i \in Indices(s) : s[i] = ":"}

(* the value the duration contract gives to a cell, in ticks *)
ContractMinutes(t) ==
    IF ~t.isstr THEN 0
    ELSE LET s == t.chars
             at == Colons(s)
         IN  IF Cardinality(at) = 1
             THEN LET i == CHOOSE k \in at : TRUE
                      H == SubSeq(s, 1, i - 1)
                      M == SubSeq(s, i + 1, Len(s))
                  IN  IF IsIntegerText(H) /\ IsIntegerText(M)
                      THEN 60 * IntegerValue(H) + IntegerValue(M)
                      ELSE 0
             ELSE IF Cardinality(at) = 2
             THEN LET i == CHOOSE k \in at : \A l \in at : k <= l
                      j == CHOOSE k \in at : \A l \in at : l <= k
                      H == SubSeq(s, 1, i - 1)
                      M == SubSeq(s, i + 1, j - 1)
                      S == SubSeq(s, j + 1, Len(s))
                  IN  IF IsIntegerText(H) /\ IsIntegerText(M) /\ IsIntegerText(S)
                      THEN 3600 * IntegerValue(H) + 60 * IntegerValue(M) + IntegerValue(S)
                      ELSE 0
             ELSE 0

(* C3: time_to_minutes never fails; two integer parts H:M give H + M/60,   *)
(* three integer parts H:M:S give H*60 + M + S/60, anything else gives 0   *)
Thm_C3 ==
    view.kind = "video" =>
        /\ ~view.raised
        /\ \A i \in Indices(video_df.rows) :
              video_df.rows[i].total_minutes = ContractMinutes(video_df.rows[i].video_duration)

(* a text of three integer parts with a non-zero value has been converted *)
Wit_C3 ==
    /\ view.kind = "video"
    /\ \E i \in Indices(video_df.rows) :
          /\ video_df.rows[i].video_duration.isstr
          /\ Cardinality(Colons(video_df.rows[i].video_duration.chars)) = 2
          /\ video_df.rows[i].total_minutes > 60

(* C8: total_minutes of every row of the video table is >= 0, and 0 on     *)
(* input that does not parse                                               *)
Claim_C8 ==
    view.kind = "video" =>
        \A i \in Indices(video_df.rows) : video_df.rows[i].total_minutes >= 0

OneHour == Str(<<"1", ":", "0", "0">>)
ThreeQuarters == Str(<<"0", ":", "4", "5">>)

(* a video table whose rows for one SME carry exactly the durations "1:00" *)
(* and "0:45" is on the page                                               *)
CarolCase(row) ==
    LET mine == {i \in Indices(video_df.rows) : video_df.rows[i].name = row.name}
    IN  /\ Cardinality(mine) = 2
        /\ {video_df.rows[i].video_duration : i \in mine} = {OneHour, ThreeQuarters}

(* C4 as stated: durations "1:00" and "0:45" sum to 60.75 and miss the     *)
(* target                                                                  *)
Claim_C4 ==
    view.kind = "video" =>
        \A i \in Indices(view.table) :
            CarolCase(view.table[i]) =>
                /\ view.table[i].total_minutes * 100 = 6075 * 60
                /\ ~view.table[i].target_met

(* C4 amended: durations "1:00" and "0:45" sum to 1 + 45/60 = 1.75 and     *)
(* miss the target                                                         *)
Thm_C4 ==
    view.kind = "video" =>
        \A i \in Indices(view.table) :
            CarolCase(view.table[i]) =>
                /\ view.table[i].total_minutes * 100 = 175 * 60
                /\ ~view.table[i].target_met

Wit_C4 ==
    /\ view.kind = "video"
    /\ \E i \in Indices(view.table) : CarolCase(view.table[i])

-----------------------------------------------------------------------------
RequiredNames ==
    {<<"s", "t", "a", "r", "t", "_", "d", "a", "t", "e">>,
     <<"e", "n", "d", "_", "d", "a", "t", "e">>,
     <<"w", "o", "r", "k", "_", "d", "a", "y", "s">>,
     <<"l", "e", "a", "v", "e", "_", "d", "a", "y", "s">>,
     <<"t", "o", "p", "i", "c">>,
     <<"n", "a", "m", "e">>}

LeaveDays == <<"l", "e", "a", "v", "e", "_", "d", "a", "y", "s">>

(* the column names of the upload after trimming, lowercasing and putting  *)
(* underscores for spaces, as the run recorded them                        *)
PresentColumns == Range(employee_df.columns)

(* C5: when a required column is absent after normalization the run ends   *)
(* in a schema error that reports exactly the required columns that are    *)
(* absent, and computes no report; when none is absent there is no schema  *)
(* error                                                                   *)
Thm_C5 ==
    uploaded_employee_file # NoFile =>
        /\ Len(employee_df.columns) = Len(uploaded_employee_file.columns)
        /\ IF RequiredNames \ PresentColumns # {}
           THEN /\ view.kind = "schema_error"
                /\ view.missing = RequiredNames \ PresentColumns
                /\ view.table = <<>>
                /\ ~sidebar_shown
           ELSE view.kind \notin {"schema_error", "none"}

(* the upload without leave_days *)
Wit_C5 ==
    /\ view.kind = "schema_error"
    /\ view.missing = {LeaveDays}

(* the input rows whose start_date is a calendar date *)
Parsable == {i \in Indices(uploaded_employee_file.rows) :
                IsCalendarDate(uploaded_employee_file.rows[i].start_date)}

(* C6: the normalized table holds exactly the input rows with a parsable   *)
(* start_date, in their order; a row with an unparsable end_date stays,    *)
(* with a null end_date; no unparsable date is an error                    *)
Thm_C6 ==
    SchemaValid =>
        /\ \A j \in Indices(employee_df.rows) : employee_df.rows[j].start_date # NaT
        /\ Len(employee_df.rows) = Cardinality(Parsable)
        /\ \A i \in Parsable :
              LET raw == uploaded_employee_file.rows[i]
                  kept == employee_df.rows[Cardinality({k \in Parsable : k <= i})]
              IN  /\ kept.name = raw.name
                  /\ kept.topic = raw.topic
                  /\ kept.work_days = raw.work_days
                  /\ kept.start_date = raw.start_date
                  /\ kept.end_date = IF IsCalendarDate(raw.end_date) THEN raw.end_date ELSE NaT
        /\ view.kind # "schema_error"

(* a row with an unparsable end_date was kept and a row with an unparsable *)
(* start_date was dropped                                                  *)
Wit_C6 ==
    /\ SchemaValid
    /\ \E i \in Parsable : ~IsCalendarDate(uploaded_employee_file.rows[i].end_date)
    /\ \E j \in Indices(employee_df.rows) : employee_df.rows[j].end_date = NaT
    /\ Len(employee_df.rows) < Len(uploaded_employee_file.rows)

PlainBufferNames ==
    {<<"p", "p", "t", "_", "b", "u", "f", "f", "e", "r">>,
     <<"l", "a", "b", "_", "p", "p", "t", "_", "b", "u", "f", "f", "e", "r">>,
     <<"i", "l", "l", "u", "_", "b", "u", "f", "f", "e", "r">>,
     <<"a", "e", "_", "b", "u", "f", "f", "e", "r">>}

ScriptBufferNames ==
    {<<"p", "p", "t", "'", "s", "_", "b", "u", "f", "f", "e", "r">>,
     <<"l", "a", "b", "_", "p", "p", "t", "'", "s", "_", "b", "u", "f", "f", "e", "r">>,
     <<"i", "l", "l", "u", "_", "b", "u", "f", "f", "e", "r">>,
     <<"a", "e", "_", "b", "u", "f", "f", "e", "r">>}

NameGroup(row) == {i \in Indices(employee_df.rows) : employee_df.rows[i].name = row.name}

BufferSums(table) ==
    /\ {table[i].name : i \in Indices(table)}
          = {employee_df.rows[j].name : j \in Indices(employee_df.rows)}
    /\ \A i \in Indices(table) :
          LET g == NameGroup(table[i]) IN
          /\ table[i].ppts_buffer = SumOver(g, [j \in g |-> employee_df.rows[j].ppts_buffer])
          /\ table[i].lab_ppts_buffer = SumOver(g, [j \in g |-> employee_df.rows[j].lab_ppts_buffer])
          /\ table[i].illu_buffer = SumOver(g, [j \in g |-> employee_df.rows[j].illu_buffer])
          /\ table[i].ae_buffer = SumOver(g, [j \in g |-> employee_df.rows[j].ae_buffer])

(* C7 as stated: the Buffer report gives the per-name sums exactly when    *)
(* the columns ppt_buffer, lab_ppt_buffer, illu_buffer and ae_buffer are   *)
(* all present, and the "columns absent" warning otherwise                 *)
Claim_C7 ==
    (SchemaValid /\ choice = menu[5]) =>
        IF PlainBufferNames \subseteq PresentColumns
        THEN view.kind = "buffer" /\ BufferSums(view.table)
        ELSE view.kind = "buffer_warning"

(* C7 amended: the same with the columns ppt's_buffer, lab_ppt's_buffer,   *)
(* illu_buffer and ae_buffer                                               *)
Thm_C7 ==
    (SchemaValid /\ choice = menu[5]) =>
        IF ScriptBufferNames \subseteq PresentColumns
        THEN view.kind = "buffer" /\ BufferSums(view.table)
        ELSE view.kind = "buffer_warning"

(* sums over more than one employee are on the page *)
Wit_C7 ==
    /\ view.kind = "buffer"
    /\ Len(view.table) >= 2
    /\ \E i \in Indices(view.table) : view.table[i].illu_buffer > 0

-----------------------------------------------------------------------------
ReportKinds == {"weekly", "monthly", "overall", "attendance", "buffer", "video"}

KeyFields == {"name", "week_number", "month", "month_number"}

(* the table a summary was grouped from *)
GroupedRows == IF view.kind = "video" THEN video_df.rows ELSE employee_df.rows

KeyOf(row) ==
    IF view.kind = "weekly" THEN {"name", "week_number"}
    ELSE IF view.kind = "monthly" THEN {"name", "month", "month_number"}
    ELSE IF view.kind = "attendance" THEN {"name", "month"}
    ELSE {"name"}

SameKey(row, r) == \A f \in KeyOf(row) : row[f] = r[f]

FirstOccurrence(row) ==
    CHOOSE i \in Indices(GroupedRows) :
        /\ SameKey(row, GroupedRows[i])
        /\ \A j \in 1..(i - 1) : ~SameKey(row, GroupedRows[j])

InsertionOrder ==
    \A i, j \in Indices(view.table) :
        i < j => FirstOccurrence(view.table[i]) < FirstOccurrence(view.table[j])

(* C9 as stated: the groups of every summary appear in the order in which  *)
(* their key first occurs in the table they are grouped from               *)
Claim_C9 == view.kind \in ReportKinds => InsertionOrder

(* a key precedes another when it is smaller in the first component in     *)
(* which they differ: names and month names as strings, numbers as numbers *)
KeyPrecedes(a, b) ==
    \/ StrRank(a.name) < StrRank(b.name)
    \/ /\ a.name = b.name
       /\ \/ /\ view.kind = "weekly"
             /\ a.week_number < b.week_number
          \/ /\ view.kind \in {"monthly", "attendance"}
             /\ StrRank(a.month) < StrRank(b.month)

(* C9 amended: the groups of every summary appear in ascending order of    *)
(* their key, whatever the order of the rows they are grouped from         *)
Thm_C9 ==
    view.kind \in ReportKinds =>
        \A i \in Indices(view.table) :
            i < Len(view.table) => KeyPrecedes(view.table[i], view.table[i + 1])

(* a summary whose groups are not in the order of first occurrence *)
Wit_C9 ==
    /\ view.kind = "weekly"
    /\ Len(view.table) >= 2
    /\ ~InsertionOrder

-----------------------------------------------------------------------------
(* the page a fresh session shows for the current uploads and menu entry *)
FreshPage == script(uploaded_employee_file, uploaded_video_file, choice, <<>>).view

UploadValid ==
    /\ uploaded_employee_file # NoFile
    /\ RequiredNames \subseteq
          {normalize_column(uploaded_employee_file.columns[i]) :
              i \in Indices(uploaded_employee_file.columns)}

(* C10: with a schema-valid employee upload, after any sequence of         *)
(* selections and uploads, Buffer without the buffer columns shows the     *)
(* warning, Video without a video table shows the "awaiting input" note,   *)
(* the menu stays available, and the page is the one a fresh session shows *)
(* for the same uploads and menu entry                                     *)
Thm_C10 ==
    UploadValid =>
        /\ sidebar_shown
        /\ (choice = menu[5] /\ ~(ScriptBufferNames \subseteq PresentColumns))
              => view.kind = "buffer_warning"
        /\ (choice = menu[6] /\ uploaded_video_file = NoFile) => view.kind = "video_info"
        /\ view = FreshPage

(* the Buffer warning is on the page after the Video report had loaded a   *)
(* video table that is still uploaded                                      *)
Wit_C10 ==
    /\ view.kind = "buffer_warning"
    /\ uploaded_video_file # NoFile
    /\ uploaded_video_file \in DOMAIN cache
====
